---- MODULE Spec2Model ----
(***************************************************************************)
(* Fleet fuel log: identity resolution and access control.                 *)
(*                                                                         *)
(* The model covers the admin-users edge function (create-user,            *)
(* reset-password, delete-user behind the admin gate), the two passcode    *)
(* login paths (LoginForm.handleSignIn and the auth-with-passcode edge     *)
(* function), the handle_new_user trigger, the anonymous read policy and   *)
(* the signed-in client (AuthProvider, FuelForm, AdminPanel,               *)
(* UserManagement).                                                        *)
(*                                                                         *)
(* Strings are sequences of one-character strings, so that toLowerCase,    *)
(* toUpperCase, trim, split and the /^\d{4}$/ test are computed, not       *)
(* assumed.  A store call that writes may fail for reasons outside the     *)
(* handler (transport, database); reads answer, except the account lookup  *)
(* of AuthProvider.fetchAppUser, whose failure the code handles by leaving *)
(* appUser null.                                                           *)
(***************************************************************************)
EXTENDS Integers, Sequences, FiniteSets, TLC

VARIABLES
    auth_users,   \* Credential Store: id -> [email, password]
    app_users,    \* Account Directory: rows in table order
    nextId,       \* next identity the Credential Store generates
    last,         \* the last request handled, its response and its store calls
    csvIn,        \* vehicle CSV under parse (SpecParse)
    csvOut,       \* its parsed array, Unparsed before the parse
    loginForm,    \* LoginForm state: plateNumber, enteredCode, isSubmitting, message
    session,      \* AuthProvider state: user (credential id, 0 for none) and appUser
    fuel_records, \* Record Store: rows in insertion order
    panel,        \* AdminPanel and UserManagement: what is rendered and fetched
    groupedRecords, \* AdminPanel: groupRecordsByPlate(records) as rendered
    fetches,      \* AuthProvider: its asynchronous calls in flight
    attempts,     \* LoginForm: the handleSignIn calls in flight
    loading,      \* AuthProvider state: loading
    showPlateInput \* LoginForm state: the plate field is shown, not the keypad

vars == <<auth_users, app_users, nextId, last, csvIn, csvOut,
          loginForm, session, fuel_records, panel, groupedRecords, fetches, attempts,
          loading, showPlateInput>>

\* the summaries and the calls in flight, which the handlers modelled as one
\* step never touch
restVars == <<groupedRecords, fetches, attempts, loading, showPlateInput>>

\* the browser state, which the edge functions and the CSV parse never touch
clientVars == <<loginForm, session, fuel_records, panel>>

(***************************************************************************)
(* Bounds                                                                  *)
(***************************************************************************)
\* identities the Credential Store generates in one run
MaxCreated == 1
\* accounts in the directory a login attempt runs against (SpecLogin)
MaxAccounts == 2
\* longest vehicle CSV enumerated by SpecParse
MaxCsvLen == 3
\* fuel records inserted in one run (SpecClient)
MaxRecords == 1
\* longest record list summarized (SpecSummary)
MaxSummaryLen == 3
\* asynchronous calls and undelivered auth events of the AuthProvider at once
MaxCalls == 3

(***************************************************************************)
(* Strings                                                                 *)
(***************************************************************************)
Digits == {"0", "1", "2", "3", "4", "5", "6", "7", "8", "9"}

UpperChar(c) ==
    CASE c = "a" -> "A"
      [] c = "b" -> "B"
      [] c = "c" -> "C"
      [] c = "u" -> "U"
      [] c = "r" -> "R"
      [] c = "g" -> "G"
      [] c = "x" -> "X"
      [] OTHER -> c

LowerChar(c) ==
    CASE c = "A" -> "a"
      [] c = "B" -> "b"
      [] c = "C" -> "c"
      [] c = "U" -> "u"
      [] c = "R" -> "r"
      [] c = "G" -> "g"
      [] c = "X" -> "x"
      [] OTHER -> c

toUpperCase(s) == [i \in 1..Len(s) |-> UpperChar(s[i])]

toLowerCase(s) == [i \in 1..Len(s) |-> LowerChar(s[i])]

trim(s) ==
    LET inked == {i \in 1..Len(s) : s[i] # " "}
    IN  IF inked = {} THEN <<>>
        ELSE LET lo == CHOOSE i \in inked : \A j \in inked : i <= j
                 hi == CHOOSE i \in inked : \A j \in inked : j <= i
             IN  SubSeq(s, lo, hi)

RECURSIVE split(_)
split(s) ==
    LET commas == {i \in 1..Len(s) : s[i] = ","}
    IN  IF commas = {} THEN <<s>>
        ELSE LET k == CHOOSE i \in commas : \A j \in commas : i <= j
             IN  <<SubSeq(s, 1, k - 1)>> \o split(SubSeq(s, k + 1, Len(s)))

NonEmpty(v) == Len(v) > 0

\* assignedVehicles.split(',').map(v => v.trim().toUpperCase()).filter(v => v.length > 0)
vehiclesArray(assignedVehicles) ==
    LET parts  == split(assignedVehicles)
        mapped == [i \in 1..Len(parts) |-> toUpperCase(trim(parts[i]))]
    IN  SelectSeq(mapped, NonEmpty)

\* the test without its length: /^\d+$/
isFourDigitsAnyLength(password) ==
    /\ Len(password) >= 1
    /\ \A i \in 1..Len(password) : password[i] \in Digits

\* /^\d{4}$/.test(password)
isFourDigits(password) ==
    /\ Len(password) = 4
    /\ \A i \in 1..Len(password) : password[i] \in Digits

includes(arr, v) == \E i \in 1..Len(arr) : arr[i] = v

Range(seq) == {seq[i] : i \in 1..Len(seq)}

(***************************************************************************)
(* Requests and their inputs                                               *)
(***************************************************************************)
AdminEmail == <<"r", "@", "x">>
GuestEmail == <<"g", "@", "x">>
AdminSecret == <<"r", "o", "o", "t">>
GuestSecret == <<"g", "u", "e", "s", "t">>

EmailInputs == {<<"a", "@", "x">>, <<"A", "@", "x">>, <<"b", "@", "x">>}

PasscodeInputs ==
    { <<"1", "2", "3", "4">>, <<"0", "0", "0", "0">>,
      <<"1", "2", "3", "4", "5">>, <<"1", "2", "a", "4">> }

CsvInputs == {<<"a">>, <<"b">>}

Roles == {"admin", "user"}

LifecycleActions == {"create-user", "reset-password", "delete-user"}

\* req.headers.get('Authorization'): absent, or a bearer token.  Token 0 is a
\* string that is no session; token t > 0 is the session of credential t.
Headers ==
    {[present |-> FALSE, token |-> 0]}
        \cup {[present |-> TRUE, token |-> t] : t \in {0} \cup DOMAIN auth_users}

UserIds == 1..(nextId - 1)

EmptyBody ==
    [email |-> <<>>, password |-> <<>>, assignedVehicles |-> <<>>, userId |-> 0,
     plateNumber |-> <<>>]

Idle ==
    [kind |-> "none", auth |-> [present |-> FALSE, token |-> 0], role |-> "user",
     action |-> "none", body |-> EmptyBody, status |-> 0, error |-> "none",
     calls |-> <<>>, matched |-> <<>>, names |-> <<>>]

\* which store writes of one request succeed: createUser, upsert, cleanup deleteUser
\* (a call after a failed one is not made, except the cleanup)
CreateOutcomes ==
    {<<TRUE, TRUE, TRUE>>, <<FALSE, TRUE, TRUE>>, <<TRUE, FALSE, TRUE>>,
     <<TRUE, FALSE, FALSE>>}

\* deleteUser, app_users delete
DeleteOutcomes == {<<TRUE, TRUE>>, <<FALSE, TRUE>>, <<TRUE, FALSE>>}

\* csvOut before the request's CSV is parsed: no parse yields an empty entry
Unparsed == << <<>> >>

\* appUser null
NoAccount ==
    [id |-> 0, email |-> <<>>, role |-> "none", assigned_vehicles |-> <<>>,
     created_by |-> 0]

\* nobody signed in, forms blank, no record, admin panel not mounted
FormBlank ==
    [plateNumber |-> <<>>, enteredCode |-> <<>>, isSubmitting |-> FALSE,
     message |-> "none"]

SignedOut == [user |-> 0, appUser |-> NoAccount]

PanelClosed == [view |-> "closed", records |-> <<>>, management |-> "closed"]

NoClient ==
    /\ loginForm = FormBlank
    /\ session = SignedOut
    /\ fuel_records = <<>>
    /\ panel = PanelClosed
    /\ groupedRecords = <<>>
    /\ fetches = <<>>
    /\ attempts = <<>>
    /\ loading = FALSE
    /\ showPlateInput = TRUE

Call(fn, ok, arg) == [fn |-> fn, ok |-> ok, arg |-> arg]

(***************************************************************************)
(* Error messages                                                          *)
(***************************************************************************)
MsgNoHeader == "No authorization header"
MsgInvalidToken == "Invalid token"
MsgAdminRequired == "Admin access required"
MsgFourDigits == "Password must be exactly 4 digits"
MsgExists == "User with this email already exists"
MsgInvalidAction == "Invalid action"
\* error.message of a failed store call is forwarded verbatim
MsgUserNotFound == "User not found"
MsgRegistered == "A user with this email address has already been registered"
MsgDuplicateKey == "duplicate key value violates unique constraint"
\* a failure outside the handler (gateway, transport) reads the same whichever
\* store call it hits
MsgUnavailable == "Service unavailable"

(***************************************************************************)
(* Stores                                                                  *)
(***************************************************************************)
Without(f, id) == [i \in DOMAIN f \ {id} |-> f[i]]

eqEmail(rows, email) == SelectSeq(rows, LAMBDA r : r.email = email)

eqId(rows, id) == SelectSeq(rows, LAMBDA r : r.id = id)

neqId(rows, id) == SelectSeq(rows, LAMBDA r : r.id # id)

registered(auth, email) == \E id \in DOMAIN auth : auth[id].email = email

\* public.handle_new_user(): AFTER INSERT ON auth.users
handle_new_user(rows, id, email) ==
    IF Len(eqEmail(rows, email)) = 0
    THEN Append(rows, [id |-> id, email |-> email, role |-> "user",
                       assigned_vehicles |-> <<>>, created_by |-> 0])
    ELSE rows

\* an insert in place of the upsert: the row of the trigger stays
upsertAppending(rows, row) == Append(rows, row)

\* .upsert([row], { onConflict: 'id' }) on a table with UNIQUE (email)
upsertClash(rows, row) == \E i \in 1..Len(rows) : rows[i].email = row.email /\ rows[i].id # row.id

upsert(rows, row) ==
    IF Len(eqId(rows, row.id)) > 0
    THEN [i \in 1..Len(rows) |-> IF rows[i].id = row.id THEN row ELSE rows[i]]
    ELSE Append(rows, row)

(***************************************************************************)
(* admin-users edge function                                               *)
(***************************************************************************)
Result(auth, app, next, status, error, calls) ==
    [auth |-> auth, app |-> app, next |-> next, status |-> status, error |-> error,
     calls |-> calls]

Reject(status, error, calls) ==
    Result(auth_users, app_users, nextId, status, error, calls)

\* the gate deciding on the role the client asserts instead of the stored one
AdminGateTrustingRole(header, role) ==
    IF ~header.present
    THEN [pass |-> FALSE, status |-> 401, error |-> MsgNoHeader, calls |-> <<>>, user |-> 0]
    ELSE IF header.token \notin DOMAIN auth_users
    THEN [pass |-> FALSE, status |-> 401, error |-> MsgInvalidToken,
          calls |-> <<Call("auth.getUser", FALSE, <<>>)>>, user |-> 0]
    ELSE LET appUser == eqEmail(app_users, auth_users[header.token].email)
             calls == <<Call("auth.getUser", TRUE, <<>>),
                        Call("app_users.select", Len(appUser) = 1, <<>>)>>
         IN  IF role # "admin"
             THEN [pass |-> FALSE, status |-> 403, error |-> MsgAdminRequired,
                   calls |-> calls, user |-> header.token]
             ELSE [pass |-> TRUE, status |-> 200, error |-> "none",
                   calls |-> calls, user |-> header.token]

\* Authorization header, auth.getUser(token), app_users role lookup
AdminGate(header, role) ==
    IF ~header.present
    THEN [pass |-> FALSE, status |-> 401, error |-> MsgNoHeader, calls |-> <<>>, user |-> 0]
    ELSE IF header.token \notin DOMAIN auth_users
    THEN [pass |-> FALSE, status |-> 401, error |-> MsgInvalidToken,
          calls |-> <<Call("auth.getUser", FALSE, <<>>)>>, user |-> 0]
    ELSE LET appUser == eqEmail(app_users, auth_users[header.token].email)
             calls == <<Call("auth.getUser", TRUE, <<>>),
                        Call("app_users.select", Len(appUser) = 1, <<>>)>>
         IN  IF Len(appUser) # 1 \/ appUser[1].role # "admin"
             THEN [pass |-> FALSE, status |-> 403, error |-> MsgAdminRequired,
                   calls |-> calls, user |-> header.token]
             ELSE [pass |-> TRUE, status |-> 200, error |-> "none",
                   calls |-> calls, user |-> header.token]

\* create-user looking the email up as typed, not lowercased
createUserRawLookup(gate, body, createOk, upsertOk, cleanupOk) ==
    LET email == toLowerCase(body.email)
        existingUser == eqEmail(app_users, body.email)
        c1 == gate.calls \o <<Call("app_users.select", Len(existingUser) = 1, <<>>)>>
        authOk == createOk /\ ~registered(auth_users, email)
        c2 == c1 \o <<Call("auth.admin.createUser", authOk, body.password)>>
        id == nextId
        auth1 == (id :> [email |-> email, password |-> body.password]) @@ auth_users
        app1 == handle_new_user(app_users, id, email)
        row == [id |-> id, email |-> email, role |-> "user",
                assigned_vehicles |-> vehiclesArray(body.assignedVehicles),
                created_by |-> gate.user]
        insertOk == upsertOk /\ ~upsertClash(app1, row)
        c3 == c2 \o <<Call("app_users.upsert", insertOk, <<>>)>>
        c4 == c3 \o <<Call("auth.admin.deleteUser", cleanupOk, <<>>)>>
    IN  IF ~isFourDigits(body.password)
        THEN Reject(400, MsgFourDigits, gate.calls)
        ELSE IF Len(existingUser) = 1
        THEN Reject(400, MsgExists, c1)
        ELSE IF ~authOk
        THEN Reject(400, IF registered(auth_users, email) THEN MsgRegistered
                         ELSE MsgUnavailable, c2)
        ELSE IF insertOk
        THEN Result(auth1, upsert(app1, row), nextId + 1, 200, "none", c3)
        ELSE Result(IF cleanupOk THEN Without(auth1, id) ELSE auth1, app1, nextId + 1,
                    400, IF upsertClash(app1, row) THEN MsgDuplicateKey ELSE MsgUnavailable,
                    c4)

\* POST create-user
createUser(gate, body, createOk, upsertOk, cleanupOk) ==
    LET email == toLowerCase(body.email)
        existingUser == eqEmail(app_users, email)
        c1 == gate.calls \o <<Call("app_users.select", Len(existingUser) = 1, <<>>)>>
        authOk == createOk /\ ~registered(auth_users, email)
        c2 == c1 \o <<Call("auth.admin.createUser", authOk, body.password)>>
        id == nextId
        auth1 == (id :> [email |-> email, password |-> body.password]) @@ auth_users
        app1 == handle_new_user(app_users, id, email)
        row == [id |-> id, email |-> email, role |-> "user",
                assigned_vehicles |-> vehiclesArray(body.assignedVehicles),
                created_by |-> gate.user]
        insertOk == upsertOk /\ ~upsertClash(app1, row)
        c3 == c2 \o <<Call("app_users.upsert", insertOk, <<>>)>>
        c4 == c3 \o <<Call("auth.admin.deleteUser", cleanupOk, <<>>)>>
    IN  IF ~isFourDigits(body.password)
        THEN Reject(400, MsgFourDigits, gate.calls)
        ELSE IF Len(existingUser) = 1
        THEN Reject(400, MsgExists, c1)
        ELSE IF ~authOk
        THEN Reject(400, IF registered(auth_users, email) THEN MsgRegistered
                         ELSE MsgUnavailable, c2)
        ELSE IF insertOk
        THEN Result(auth1, upsert(app1, row), nextId + 1, 200, "none", c3)
        ELSE Result(IF cleanupOk THEN Without(auth1, id) ELSE auth1, app1, nextId + 1,
                    400, IF upsertClash(app1, row) THEN MsgDuplicateKey ELSE MsgUnavailable,
                    c4)

\* reset-password without the format test
resetPasswordUnchecked(gate, body, updateOk) ==
    LET known == body.userId \in DOMAIN auth_users
        ok == updateOk /\ known
        c1 == gate.calls \o <<Call("auth.admin.updateUserById", ok, body.password)>>
    IN  IF ~ok
        THEN Reject(400, IF known THEN MsgUnavailable ELSE MsgUserNotFound, c1)
        ELSE Result([auth_users EXCEPT ![body.userId].password = body.password],
                    app_users, nextId, 200, "none", c1)

\* reset-password writing the secret to every credential
resetPasswordEveryCredential(gate, body, updateOk) ==
    LET known == body.userId \in DOMAIN auth_users
        ok == updateOk /\ known
        c1 == gate.calls \o <<Call("auth.admin.updateUserById", ok, body.password)>>
    IN  IF ~isFourDigits(body.password)
        THEN Reject(400, MsgFourDigits, gate.calls)
        ELSE IF ~ok
        THEN Reject(400, IF known THEN MsgUnavailable ELSE MsgUserNotFound, c1)
        ELSE Result([id \in DOMAIN auth_users |->
                        [auth_users[id] EXCEPT !.password = body.password]],
                    app_users, nextId, 200, "none", c1)

\* POST reset-password
resetPassword(gate, body, updateOk) ==
    LET known == body.userId \in DOMAIN auth_users
        ok == updateOk /\ known
        c1 == gate.calls \o <<Call("auth.admin.updateUserById", ok, body.password)>>
    IN  IF ~isFourDigits(body.password)
        THEN Reject(400, MsgFourDigits, gate.calls)
        ELSE IF ~ok
        THEN Reject(400, IF known THEN MsgUnavailable ELSE MsgUserNotFound, c1)
        ELSE Result([auth_users EXCEPT ![body.userId].password = body.password],
                    app_users, nextId, 200, "none", c1)

\* delete-user deleting the account row before the credential
deleteUserRowFirst(gate, body, authDeleteOk, rowDeleteOk) ==
    LET known == body.userId \in DOMAIN auth_users
        ok == authDeleteOk /\ known
        c1 == gate.calls \o <<Call("app_users.delete", rowDeleteOk, <<>>)>>
        c2 == c1 \o <<Call("auth.admin.deleteUser", ok, <<>>)>>
        app1 == neqId(app_users, body.userId)
    IN  IF ~rowDeleteOk
        THEN Reject(400, MsgUnavailable, c1)
        ELSE IF ~ok
        THEN Result(auth_users, app1, nextId, 400,
                    IF known THEN MsgUnavailable ELSE MsgUserNotFound, c2)
        ELSE Result(Without(auth_users, body.userId), app1, nextId, 200, "none", c2)

\* DELETE delete-user
deleteUser(gate, body, authDeleteOk, rowDeleteOk) ==
    LET known == body.userId \in DOMAIN auth_users
        ok == authDeleteOk /\ known
        c1 == gate.calls \o <<Call("auth.admin.deleteUser", ok, <<>>)>>
        c2 == c1 \o <<Call("app_users.delete", rowDeleteOk, <<>>)>>
        auth1 == Without(auth_users, body.userId)
    IN  IF ~ok
        THEN Reject(400, IF known THEN MsgUnavailable ELSE MsgUserNotFound, c1)
        ELSE IF ~rowDeleteOk
        THEN Result(auth1, app_users, nextId, 400, MsgUnavailable, c2)
        ELSE Result(auth1, neqId(app_users, body.userId), nextId, 200, "none", c2)

Respond(header, role, action, body, r) ==
    /\ auth_users' = r.auth
    /\ app_users' = r.app
    /\ nextId' = r.next
    /\ last' = [Idle EXCEPT !.kind = "admin-users", !.auth = header, !.role = role,
                            !.action = action, !.body = body, !.status = r.status,
                            !.error = r.error, !.calls = r.calls]
    /\ UNCHANGED <<csvIn, csvOut, clientVars,
                   restVars>>

\* the gate answers 401 or 403; the body is never read
Unauthorized ==
    /\ last = Idle
    /\ \E header \in Headers, role \in Roles, action \in LifecycleActions :
            LET gate == AdminGate(header, role)
            IN  /\ ~gate.pass
                /\ Respond(header, role, action, EmptyBody,
                           Reject(gate.status, gate.error, gate.calls))

CreateUser ==
    /\ last = Idle
    /\ \E header \in Headers, role \in Roles, email \in EmailInputs,
           password \in PasscodeInputs, csv \in CsvInputs, ok \in CreateOutcomes :
            LET gate == AdminGate(header, role)
                body == [EmptyBody EXCEPT !.email = email, !.password = password,
                                          !.assignedVehicles = csv]
                r == createUser(gate, body, ok[1], ok[2], ok[3])
            IN  /\ gate.pass
                /\ r.next = nextId \/ nextId < 4 + MaxCreated
                /\ Respond(header, role, "create-user", body, r)

ResetPassword ==
    /\ last = Idle
    /\ \E header \in Headers, role \in Roles, userId \in UserIds,
           password \in PasscodeInputs, updateOk \in BOOLEAN :
            LET gate == AdminGate(header, role)
                body == [EmptyBody EXCEPT !.userId = userId, !.password = password]
            IN  /\ gate.pass
                /\ Respond(header, role, "reset-password", body,
                           resetPassword(gate, body, updateOk))

DeleteUser ==
    /\ last = Idle
    /\ \E header \in Headers, role \in Roles, userId \in UserIds, ok \in DeleteOutcomes :
            LET gate == AdminGate(header, role)
                body == [EmptyBody EXCEPT !.userId = userId]
            IN  /\ gate.pass
                /\ Respond(header, role, "delete-user", body,
                           deleteUser(gate, body, ok[1], ok[2]))

InvalidAction ==
    /\ last = Idle
    /\ \E header \in Headers, role \in Roles :
            LET gate == AdminGate(header, role)
            IN  /\ gate.pass
                /\ Respond(header, role, "other", EmptyBody,
                           Reject(400, MsgInvalidAction, gate.calls))

\* the caller has the response; the edge function keeps nothing between requests
ResponseReturned ==
    /\ last # Idle
    /\ last' = Idle
    /\ UNCHANGED <<auth_users, app_users, nextId, csvIn, csvOut, clientVars,
                   restVars>>

(***************************************************************************)
(* Passcode login: LoginForm.handleSignIn and auth-with-passcode           *)
(***************************************************************************)
MsgPlateMissing == "Please enter your vehicle plate number."
MsgCodeLength == "Please enter a 4-digit passcode."
MsgNoAccounts == "No user accounts found. Please contact administrator."
MsgNotAssigned == "Vehicle is not assigned to any user. Please contact administrator."
MsgInvalidPasscode == "Invalid passcode. Please try again."
MsgPasscodeFormat == "Invalid passcode format. Must be 4 digits."
MsgPlateRequired == "Vehicle plate number is required."
MsgNoUsers == "No users found"
MsgInvalid == "Invalid passcode"

PlateInputs == {<<"a">>, <<" ", "a">>, <<"B">>, <<" ">>}

\* what the keypad can enter: digits, four at most
KeypadCodes ==
    {c \in PasscodeInputs : Len(c) <= 4 /\ \A i \in 1..Len(c) : c[i] \in Digits}

\* the filter with the role left out of the query
eqRoleDropped(rows, role) == rows

\* .eq('role', role)
eqRole(rows, role) == SelectSeq(rows, LAMBDA r : r.role = role)

\* policy "Enable read access for anonymous users (login)": USING (role = 'user')
anonSelect(rows) == SelectSeq(rows, LAMBDA r : r.role = "user")

\* auth.signInWithPassword({ email, password })
signInWithPassword(email, password) ==
    \E id \in DOMAIN auth_users :
        auth_users[id].email = email /\ auth_users[id].password = password

LoginResult(status, error, calls, matched) ==
    [status |-> status, error |-> error, calls |-> calls, matched |-> matched]

\* LoginForm.handleSignIn, run without a session (role anon)
handleSignIn(plateNumber, enteredCode) ==
    LET plateUpper == toUpperCase(trim(plateNumber))
        users == eqRole(anonSelect(app_users), "user")
        c1 == <<Call("app_users.select", TRUE, <<>>)>>
        assigned == SelectSeq(users, LAMBDA u : includes(u.assigned_vehicles, plateUpper))
    IN  IF Len(trim(plateNumber)) = 0
        THEN LoginResult(0, MsgPlateMissing, <<>>, <<>>)
        ELSE IF Len(enteredCode) # 4
        THEN LoginResult(0, MsgCodeLength, <<>>, <<>>)
        ELSE IF Len(users) = 0
        THEN LoginResult(0, MsgNoAccounts, c1 \o c1, <<>>)
        ELSE IF Len(assigned) = 0
        THEN LoginResult(0, MsgNotAssigned, c1, <<>>)
        ELSE LET matchedUser == assigned[1]
                 ok == signInWithPassword(matchedUser.email, enteredCode)
                 c2 == c1 \o <<Call("auth.signInWithPassword", ok, matchedUser.email)>>
             IN  IF ok
                 THEN LoginResult(0, "none", c2, <<matchedUser>>)
                 ELSE LoginResult(0, MsgInvalidPasscode, c2, <<>>)

\* index of the first user the passcode signs in, 0 when there is none
firstSignedIn(users, passcode) ==
    LET hits == {i \in 1..Len(users) : signInWithPassword(users[i].email, passcode)}
    IN  IF hits = {} THEN 0 ELSE CHOOSE i \in hits : \A j \in hits : i <= j

\* auth-with-passcode edge function (service role key)
authWithPasscode(passcode, plateNumber) ==
    LET users == eqRole(app_users, "user")
        c1 == <<Call("app_users.select", TRUE, <<>>)>>
        k == firstSignedIn(users, passcode)
        tried == [i \in 1..(IF k = 0 THEN Len(users) ELSE k) |->
                     Call("auth.signInWithPassword", i = k, users[i].email)]
    IN  IF ~isFourDigits(passcode)
        THEN LoginResult(400, MsgPasscodeFormat, <<>>, <<>>)
        ELSE IF Len(trim(plateNumber)) = 0
        THEN LoginResult(400, MsgPlateRequired, <<>>, <<>>)
        ELSE IF Len(users) = 0
        THEN LoginResult(404, MsgNoUsers, c1, <<>>)
        ELSE IF k = 0
        THEN LoginResult(401, MsgInvalid, c1 \o tried, <<>>)
        ELSE LoginResult(200, "none",
                         c1 \o tried \o <<Call("auth.signOut", TRUE, <<>>)>>,
                         <<[email |-> users[k].email]>>)

MsgWelcome == "Welcome"

\* the form state once handleSignIn has finished without clearing the code
handleSignInFormKeepingCode(form, r) ==
    IF r.error \in {MsgPlateMissing, MsgCodeLength}
    THEN [form EXCEPT !.message = r.error]
    ELSE [form EXCEPT !.message = IF r.error = "none" THEN MsgWelcome ELSE r.error,
                      !.isSubmitting = FALSE]

\* the form state once handleSignIn, entered with state form, has finished
\* with result r: the two guards return before setIsSubmitting(true); every
\* failure after it clears the code; finally resets isSubmitting
handleSignInForm(form, r) ==
    LET submitting == [form EXCEPT !.isSubmitting = TRUE, !.message = "none"]
    IN  IF r.error \in {MsgPlateMissing, MsgCodeLength}
        THEN [form EXCEPT !.message = r.error]
        ELSE IF r.error = "none"
        THEN [submitting EXCEPT !.message = MsgWelcome, !.isSubmitting = FALSE]
        ELSE [submitting EXCEPT !.message = r.error, !.enteredCode = <<>>,
                                !.isSubmitting = FALSE]

RespondLogin(kind, plateNumber, code, r) ==
    /\ last' = [Idle EXCEPT !.kind = kind,
                            !.body = [EmptyBody EXCEPT !.plateNumber = plateNumber,
                                                       !.password = code],
                            !.status = r.status, !.error = r.error, !.calls = r.calls,
                            !.matched = r.matched]
    /\ UNCHANGED <<auth_users, app_users, nextId, csvIn, csvOut,
                   session, fuel_records, panel,
                   restVars>>

HandleSignIn ==
    /\ last = Idle
    /\ \E typed \in PlateInputs, enteredCode \in KeypadCodes :
           \* the plate field uppercases what is typed into it
           LET plateNumber == toUpperCase(typed)
               entered == [loginForm EXCEPT !.plateNumber = plateNumber,
                                            !.enteredCode = enteredCode]
               r == handleSignIn(plateNumber, enteredCode)
           IN  /\ RespondLogin("login-form", plateNumber, enteredCode, r)
               /\ loginForm' = handleSignInForm(entered, r)

AuthWithPasscode ==
    /\ last = Idle
    /\ \E plateNumber \in PlateInputs, passcode \in PasscodeInputs :
           RespondLogin("auth-with-passcode", plateNumber, passcode,
                        authWithPasscode(passcode, plateNumber))
    /\ UNCHANGED loginForm

(***************************************************************************)
(* The signed-in client: AuthProvider, FuelForm, AdminPanel,               *)
(* UserManagement                                                          *)
(***************************************************************************)
MsgNotAuthorized == "You are not authorized to add records for vehicle"

FuelPlateInputs == {<<"a">>, <<"b">>}

\* which store calls of fetchAppUser succeed: the lookup, the insert
FetchOutcomes == {<<TRUE, TRUE>>, <<FALSE, TRUE>>, <<TRUE, FALSE>>}

\* AuthProvider.fetchAppUser: the account row for the session's email, created
\* with role user when there is none; null when a store call fails
fetchAppUser(rows, email, id, lookupOk, insertOk) ==
    LET found == eqEmail(rows, email)
        newUser == [id |-> id, email |-> email, role |-> "user",
                    assigned_vehicles |-> <<>>, created_by |-> 0]
        select == Call("app_users.select", lookupOk, email)
    IN  IF ~lookupOk
        THEN [appUser |-> NoAccount, rows |-> rows, next |-> id, calls |-> <<select>>]
        ELSE IF Len(found) >= 1
        THEN [appUser |-> found[1], rows |-> rows, next |-> id, calls |-> <<select>>]
        ELSE IF insertOk
        THEN [appUser |-> newUser, rows |-> Append(rows, newUser), next |-> id + 1,
              calls |-> <<select, Call("app_users.insert", TRUE, email)>>]
        ELSE [appUser |-> NoAccount, rows |-> rows, next |-> id,
              calls |-> <<select, Call("app_users.insert", FALSE, email)>>]

\* the assignment check compared without uppercasing the plate
canWriteRecordExact(appUser, plateNumber) ==
    ~(/\ appUser # NoAccount
      /\ Len(appUser.assigned_vehicles) > 0
      /\ ~includes(appUser.assigned_vehicles, plateNumber))

\* FuelForm.handleSubmit, the assignment check: the submission goes on unless
\* appUser is set, has assigned vehicles and they do not include plateUpper
canWriteRecord(appUser, plateNumber) ==
    ~(/\ appUser # NoAccount
      /\ Len(appUser.assigned_vehicles) > 0
      /\ ~includes(appUser.assigned_vehicles, toUpperCase(plateNumber)))

SubmitResult(error, names, calls, rows) ==
    [error |-> error, names |-> names, calls |-> calls, rows |-> rows]

\* the denial shown without the vehicle identifier
handleSubmitGenericDenial(appUser, plateNumber, insertOk) ==
    LET plateUpper == toUpperCase(plateNumber)
        insert == Call("fuel_records.insert", insertOk, plateUpper)
    IN  IF ~canWriteRecord(appUser, plateNumber)
        THEN SubmitResult(MsgNotAuthorized, <<>>, <<>>, <<>>)
        ELSE IF insertOk
        THEN SubmitResult("none", <<>>, <<insert>>,
                          <<[plate_number |-> plateUpper, user_id |-> appUser.id]>>)
        ELSE SubmitResult(MsgUnavailable, <<>>, <<insert>>, <<>>)

\* FuelForm.handleSubmit
handleSubmit(appUser, plateNumber, insertOk) ==
    LET plateUpper == toUpperCase(plateNumber)
        insert == Call("fuel_records.insert", insertOk, plateUpper)
    IN  IF ~canWriteRecord(appUser, plateNumber)
        THEN SubmitResult(MsgNotAuthorized, plateUpper, <<>>, <<>>)
        ELSE IF insertOk
        THEN SubmitResult("none", <<>>, <<insert>>,
                          <<[plate_number |-> plateUpper, user_id |-> appUser.id]>>)
        ELSE SubmitResult(MsgUnavailable, <<>>, <<insert>>, <<>>)

\* the panel rendered without looking at the role
adminPanelForAnyone(appUser, fetchOk) ==
    [view |-> "records", records |-> IF fetchOk THEN fuel_records ELSE <<>>,
     management |-> "closed"]

\* AdminPanel: the effect fetches all records only for an admin, and the
\* render returns Access Denied for anyone else
adminPanel(appUser, fetchOk) ==
    IF appUser.role # "admin"
    THEN [view |-> "denied", records |-> <<>>, management |-> "closed"]
    ELSE [view |-> "records", records |-> IF fetchOk THEN fuel_records ELSE <<>>,
          management |-> "closed"]

\* UserManagement({ currentUser }): Access denied unless the role is admin
userManagement(currentUser) ==
    IF currentUser.role # "admin" THEN "denied" ELSE "users"

\* supabase.auth.onAuthStateChange with a session: setUser, then fetchAppUser
OnSignedIn ==
    /\ last = Idle
    /\ session.user = 0
    /\ \E id \in DOMAIN auth_users, ok \in FetchOutcomes :
           LET r == fetchAppUser(app_users, auth_users[id].email, nextId, ok[1], ok[2])
           IN  /\ session' = [user |-> id, appUser |-> r.appUser]
               /\ app_users' = r.rows
               /\ nextId' = r.next
               /\ last' = [Idle EXCEPT !.kind = "auth-provider", !.calls = r.calls]
    /\ UNCHANGED <<auth_users, csvIn, csvOut, loginForm, fuel_records, panel,
                   restVars>>

\* onAuthStateChange without a session: the login form replaces every screen
OnSignedOut ==
    /\ last = Idle
    /\ session.user # 0
    /\ session' = SignedOut
    /\ panel' = PanelClosed
    /\ UNCHANGED <<auth_users, app_users, nextId, last, csvIn, csvOut, loginForm,
                   fuel_records,
                   restVars>>

\* route "/" with a user: the fuel form is submitted
SubmitFuelForm ==
    /\ last = Idle
    /\ session.user # 0
    /\ \E plateNumber \in FuelPlateInputs, insertOk \in BOOLEAN :
           LET r == handleSubmit(session.appUser, plateNumber, insertOk)
           IN  /\ Len(fuel_records) + Len(r.rows) <= MaxRecords
               /\ fuel_records' = fuel_records \o r.rows
               /\ last' = [Idle EXCEPT !.kind = "fuel-form",
                                       !.body = [EmptyBody EXCEPT
                                                    !.plateNumber = plateNumber],
                                       !.error = r.error, !.names = r.names,
                                       !.calls = r.calls]
    /\ UNCHANGED <<auth_users, app_users, nextId, csvIn, csvOut, loginForm, session,
                   panel,
                   restVars>>

\* route "/admin" with a user: AdminPanel mounts
OpenAdminPanel ==
    /\ session.user # 0
    /\ \E fetchOk \in BOOLEAN : panel' = adminPanel(session.appUser, fetchOk)
    /\ UNCHANGED <<auth_users, app_users, nextId, last, csvIn, csvOut, loginForm,
                   session, fuel_records,
                   restVars>>

\* the Users tab of the panel: UserManagement renders
OpenUserManagement ==
    /\ panel.view = "records"
    /\ panel' = [panel EXCEPT !.management = userManagement(session.appUser)]
    /\ UNCHANGED <<auth_users, app_users, nextId, last, csvIn, csvOut, loginForm,
                   session, fuel_records,
                   restVars>>

\* a form of UserManagement is submitted: makeApiCall sends the request with
\* the session's access token
SubmitUserManagement ==
    /\ last = Idle
    /\ panel.management = "users"
    /\ \E action \in LifecycleActions :
           last' = [Idle EXCEPT !.kind = "user-management",
                                !.auth = [present |-> TRUE, token |-> session.user],
                                !.action = action]
    /\ UNCHANGED <<auth_users, app_users, nextId, csvIn, csvOut, clientVars,
                   restVars>>

(***************************************************************************)
(* AdminPanel.groupRecordsByPlate                                          *)
(***************************************************************************)
\* new Date('YYYY-MM-DD').getTime() of a day number, counted in seconds (the
\* comparator only uses differences of these values)
SecondsPerDay == 86400

getTime(filling_date) == filling_date * SecondsPerDay

\* String.prototype.localeCompare on the characters used here: letters in
\* alphabetical order, the lowercase form of a letter before its uppercase form
collationRank(c) ==
    CASE c = "a" -> 1
      [] c = "A" -> 2
      [] c = "b" -> 3
      [] c = "B" -> 4
      [] OTHER -> 0

localeCompare(a, b) ==
    LET n == IF Len(a) < Len(b) THEN Len(a) ELSE Len(b)
        differ == {i \in 1..n : collationRank(a[i]) # collationRank(b[i])}
    IN  IF differ = {} THEN Len(a) - Len(b)
        ELSE LET i == CHOOSE d \in differ : \A e \in differ : d <= e
             IN  collationRank(a[i]) - collationRank(b[i])

\* Array.prototype.sort with a comparator: stable; compare[j, i] is the
\* comparator's value for the elements at j and i
sort(array, compare) ==
    LET n == Len(array)
        before(i) == {j \in 1..n : \/ compare[j, i] < 0
                                   \/ compare[j, i] = 0 /\ j < i}
    IN  [k \in 1..n |-> array[CHOOSE i \in 1..n : Cardinality(before(i)) = k - 1]]

\* the keys of grouped, in the order Object.entries lists them: first appearance
plateNumbersNormalized(records) ==
    LET first == {i \in 1..Len(records) :
                     \A j \in 1..(i - 1) :
                         toUpperCase(records[j].plate_number)
                             # toUpperCase(records[i].plate_number)}
    IN  [k \in 1..Cardinality(first) |->
            toUpperCase(records[CHOOSE i \in first :
                            Cardinality({j \in first : j < i}) = k - 1].plate_number)]

plateNumbers(records) ==
    LET first == {i \in 1..Len(records) :
                     \A j \in 1..(i - 1) :
                         records[j].plate_number # records[i].plate_number}
    IN  [k \in 1..Cardinality(first) |->
            records[CHOOSE i \in first :
                        Cardinality({j \in first : j < i}) = k - 1].plate_number]

\* grouped[plate_number]: the records of the plate in the order they were pushed
grouped(records, plate_number) ==
    SelectSeq(records, LAMBDA r : r.plate_number = plate_number)

RECURSIVE totalFuel(_)
totalFuel(records) ==
    IF records = <<>> THEN 0
    ELSE totalFuel(SubSeq(records, 1, Len(records) - 1))
             + records[Len(records)].fuel_liters

RECURSIVE gcd(_, _)
gcd(a, b) == IF b = 0 THEN a ELSE gcd(b, a % b)

\* the quotient cut to an integer
averageFuelTruncated(total, length) == [num |-> total \div length, den |-> 1]

\* totalFuel / records.length, as the fraction in lowest terms
averageFuel(total, length) ==
    LET g == gcd(total, length)
    IN  IF g = 0 THEN [num |-> 0, den |-> 1]
        ELSE [num |-> total \div g, den |-> length \div g]

\* ties broken by id, descending
sortedRecordsUnstable(records) ==
    sort(records, [a, b \in 1..Len(records) |->
             IF records[a].filling_date = records[b].filling_date
             THEN records[b].id - records[a].id
             ELSE getTime(records[b].filling_date) - getTime(records[a].filling_date)])

\* records.sort((a, b) => new Date(b.filling_date).getTime() - new Date(a.filling_date).getTime())
sortedRecords(records) ==
    sort(records, [a, b \in 1..Len(records) |->
             getTime(records[b].filling_date) - getTime(records[a].filling_date)])

\* a reading of 0 dropped as if it were missing
odometerReadingsTruthy(records) ==
    LET present == SelectSeq(records, LAMBDA r : r.odometer_reading # <<>>
                                                 /\ r.odometer_reading # <<0>>)
    IN  [i \in 1..Len(present) |-> present[i].odometer_reading[1]]

\* the readings that are neither null nor undefined (a reading is <<>> or <<n>>)
odometerReadings(records) ==
    LET present == SelectSeq(records, LAMBDA r : r.odometer_reading # <<>>)
    IN  [i \in 1..Len(present) |-> present[i].odometer_reading[1]]

\* readings.length > 0 ? Math.max(...readings) : undefined
latestOdometer(readings) ==
    IF Len(readings) > 0
    THEN <<CHOOSE m \in Range(readings) : \A x \in Range(readings) : x <= m>>
    ELSE <<>>

\* readings.length > 0 ? Math.min(...readings) : undefined
firstOdometer(readings) ==
    IF Len(readings) > 0
    THEN <<CHOOSE m \in Range(readings) : \A x \in Range(readings) : m <= x>>
    ELSE <<>>

groupedRecord(plate_number, records) ==
    LET total == totalFuel(records)
        sorted == sortedRecords(records)
        readings == odometerReadings(sorted)
    IN  [plate_number |-> plate_number,
         records |-> sorted,
         totalFuel |-> total,
         averageFuel |-> averageFuel(total, Len(records)),
         recordCount |-> Len(records),
         latestOdometer |-> latestOdometer(readings),
         firstOdometer |-> firstOdometer(readings)]

groupRecordsByPlate(records) ==
    LET plates == plateNumbers(records)
        entries == [k \in 1..Len(plates) |->
                       groupedRecord(plates[k], grouped(records, plates[k]))]
    IN  sort(entries, [a, b \in 1..Len(entries) |->
                 localeCompare(entries[a].plate_number, entries[b].plate_number)])

\* day numbers of 2024-01-01, 2024-01-15 and 2024-02-01
Jan01 == 19723
Jan15 == 19737
Feb01 == 19754

FuelRecord(id, plate_number, filling_date, fuel_liters, odometer_reading) ==
    [id |-> id, plate_number |-> plate_number, filling_date |-> filling_date,
     fuel_liters |-> fuel_liters, odometer_reading |-> odometer_reading]

\* A:10 on 2024-01-01, A:20 on 2024-02-01, B:5 on 2024-01-15, a second record
\* of A on 2024-02-01, and a record of the plate stored as lowercase a
RecordPool ==
    {FuelRecord(1, <<"A">>, Jan01, 10, <<>>),
     FuelRecord(2, <<"A">>, Feb01, 20, <<0>>),
     FuelRecord(3, <<"B">>, Jan15, 5, <<>>),
     FuelRecord(4, <<"A">>, Feb01, 7, <<120>>),
     FuelRecord(5, <<"a">>, Jan15, 3, <<50>>)}

\* record lists as fetchAllRecords may return them: no record twice
RecordLists ==
    {l \in UNION {[1..k -> RecordPool] : k \in 0..MaxSummaryLen} :
        \A i, j \in 1..Len(l) : l[i] = l[j] => i = j}

\* AdminPanel renders: groupedRecords = groupRecordsByPlate(records)
RenderGroupedRecords ==
    /\ panel.view = "records"
    /\ groupedRecords = <<>>
    /\ groupedRecords' = groupRecordsByPlate(panel.records)
    /\ UNCHANGED <<auth_users, app_users, nextId, last, csvIn, csvOut, clientVars,
                   fetches, attempts, loading, showPlateInput>>

(***************************************************************************)
(* AuthProvider, one step per await                                        *)
(* Store calls are answered; an insert fails only on UNIQUE (email).       *)
(***************************************************************************)
\* an asynchronous call of the provider: who runs it, the await it stands at,
\* and the user of the session it was given (0 for no session)
AsyncCall(fn, at, user) == [fn |-> fn, at |-> at, user |-> user]

Remove(calls, i) == SubSeq(calls, 1, i - 1) \o SubSeq(calls, i + 1, Len(calls))

\* fetchAppUser after its insert: setAppUser(newUser), or null on createError
setAppUserAfterInsert(newUser, created) == IF created THEN newUser ELSE NoAccount

\* the onAuthStateChange callback without a session: setAppUser(null)
onSignedOut(appUser) == NoAccount

\* initializeAuth: getSession() resolves; setUser, then fetchAppUser or done
InitializeAuth ==
    \E i \in 1..Len(fetches) :
        /\ fetches[i].at = "getSession"
        /\ session' = [session EXCEPT !.user = fetches[i].user]
        /\ IF fetches[i].user # 0
           THEN /\ fetches' = [fetches EXCEPT ![i].at = "select"]
                /\ loading' = loading
           ELSE /\ fetches' = Remove(fetches, i)
                /\ loading' = FALSE
        /\ UNCHANGED <<auth_users, app_users, nextId, last, csvIn, csvOut, loginForm,
                       fuel_records, panel, groupedRecords, attempts, showPlateInput>>

\* the onAuthStateChange callback runs for the oldest undelivered event:
\* setUser, then setLoading(true) and fetchAppUser, or setAppUser(null) and
\* setLoading(false)
OnAuthStateChange ==
    \E i \in 1..Len(fetches) :
        /\ fetches[i].at = "event"
        /\ \A j \in 1..(i - 1) : fetches[j].at # "event"
        /\ IF fetches[i].user # 0
           THEN /\ session' = [session EXCEPT !.user = fetches[i].user]
                /\ fetches' = [fetches EXCEPT ![i].at = "select"]
                /\ loading' = TRUE
           ELSE /\ session' = [user |-> 0, appUser |-> onSignedOut(session.appUser)]
                /\ fetches' = Remove(fetches, i)
                /\ loading' = FALSE
        /\ UNCHANGED <<auth_users, app_users, nextId, last, csvIn, csvOut, loginForm,
                       fuel_records, panel, groupedRecords, attempts, showPlateInput>>

\* getSession() of initializeAuth has resolved
Initialized == \A i \in 1..Len(fetches) : fetches[i].at # "getSession"

\* a login form is on screen and signInWithPassword succeeds: SIGNED_IN
SignIn ==
    /\ Initialized
    /\ session.user = 0
    /\ ~loading
    /\ Len(fetches) < MaxCalls
    /\ \E id \in DOMAIN auth_users :
           fetches' = Append(fetches, AsyncCall("onAuthStateChange", "event", id))
    /\ UNCHANGED <<auth_users, app_users, nextId, last, csvIn, csvOut, clientVars,
                   groupedRecords, attempts, loading, showPlateInput>>

\* the fuel form is on screen and its sign-out button is clicked: SIGNED_OUT
SignOut ==
    /\ Initialized
    /\ session.user # 0
    /\ ~loading
    /\ Len(fetches) < MaxCalls
    /\ fetches' = Append(fetches, AsyncCall("onAuthStateChange", "event", 0))
    /\ UNCHANGED <<auth_users, app_users, nextId, last, csvIn, csvOut, clientVars,
                   groupedRecords, attempts, loading, showPlateInput>>

\* fetchAppUser: the select answers; setAppUser(data), or go on to the insert
FetchAppUserSelect ==
    \E i \in 1..Len(fetches) :
        LET data == eqEmail(app_users, auth_users[fetches[i].user].email)
        IN  /\ fetches[i].at = "select"
            /\ IF Len(data) >= 1
               THEN /\ session' = [session EXCEPT !.appUser = data[1]]
                    /\ fetches' = Remove(fetches, i)
                    /\ loading' = FALSE
               ELSE /\ session' = session
                    /\ fetches' = [fetches EXCEPT ![i].at = "insert"]
                    /\ loading' = loading
            /\ UNCHANGED <<auth_users, app_users, nextId, last, csvIn, csvOut,
                           loginForm, fuel_records, panel, groupedRecords, attempts, showPlateInput>>

\* fetchAppUser: the insert answers; setAppUser(newUser), or null on createError
FetchAppUserInsert ==
    \E i \in 1..Len(fetches) :
        LET email == auth_users[fetches[i].user].email
            newUser == [id |-> nextId, email |-> email, role |-> "user",
                        assigned_vehicles |-> <<>>, created_by |-> 0]
            created == Len(eqEmail(app_users, email)) = 0
        IN  /\ fetches[i].at = "insert"
            /\ app_users' = IF created THEN Append(app_users, newUser) ELSE app_users
            /\ nextId' = IF created THEN nextId + 1 ELSE nextId
            /\ session' = [session EXCEPT
                              !.appUser = setAppUserAfterInsert(newUser, created)]
            /\ fetches' = Remove(fetches, i)
            /\ loading' = FALSE
            /\ UNCHANGED <<auth_users, last, csvIn, csvOut, loginForm, fuel_records,
                           panel, groupedRecords, attempts, showPlateInput>>

(***************************************************************************)
(* LoginForm, one step per event handler and per answer                    *)
(***************************************************************************)
KeypadDigits == {"1", "2"}

PlateTyped == {<<>>, <<"a">>, <<" ">>, <<"b">>}

clearMessage(form) == [form EXCEPT !.message = "none"]

\* the keypad handler without its test of the code length
handleNumberClickUnbounded(form, number) ==
    IF ~form.isSubmitting
    THEN clearMessage([form EXCEPT !.enteredCode = Append(@, number)])
    ELSE form

handleNumberClick(form, number) ==
    IF Len(form.enteredCode) < 4 /\ ~form.isSubmitting
    THEN clearMessage([form EXCEPT !.enteredCode = Append(@, number)])
    ELSE form

handleClear(form) == clearMessage([form EXCEPT !.enteredCode = <<>>])

handleBackspace(form) ==
    clearMessage([form EXCEPT !.enteredCode =
                                  IF Len(@) = 0 THEN @ ELSE SubSeq(@, 1, Len(@) - 1)])

\* the effect on [enteredCode, plateNumber] calls handleSignIn after a render
\* that changed one of them, with four characters and a plate
autoSubmit(form) ==
    /\ form.enteredCode # loginForm.enteredCode \/ form.plateNumber # loginForm.plateNumber
    /\ Len(form.enteredCode) = 4
    /\ Len(trim(form.plateNumber)) > 0

\* handleSignIn up to its first await: the two guards, then setIsSubmitting(true)
\* and clearMessage()
handleSignInStarts(form) ==
    Len(trim(form.plateNumber)) > 0 /\ Len(form.enteredCode) = 4

\* a handler has left the form as it is given; the render runs the effect
Render(form, calls) ==
    IF autoSubmit(form)
    THEN IF handleSignInStarts(form)
         THEN /\ loginForm' = clearMessage([form EXCEPT !.isSubmitting = TRUE])
              /\ attempts' = Append(calls, [plateNumber |-> form.plateNumber,
                                            enteredCode |-> form.enteredCode])
         ELSE /\ loginForm' = handleSignInForm(form, handleSignIn(form.plateNumber,
                                                                  form.enteredCode))
              /\ attempts' = calls
    ELSE /\ loginForm' = form
         /\ attempts' = calls

KeypadUnchanged ==
    UNCHANGED <<auth_users, app_users, nextId, last, csvIn, csvOut, session,
                fuel_records, panel, groupedRecords, fetches, loading>>

\* the plate field's onChange
ChangePlateNumber ==
    /\ showPlateInput
    /\ \E typed \in PlateTyped :
           Render(clearMessage([loginForm EXCEPT !.plateNumber = toUpperCase(typed)]),
                  attempts)
    /\ UNCHANGED showPlateInput
    /\ KeypadUnchanged

\* the Continue button
Continue ==
    /\ showPlateInput
    /\ ~loginForm.isSubmitting
    /\ IF Len(trim(loginForm.plateNumber)) > 0
       THEN showPlateInput' = FALSE /\ Render(loginForm, attempts)
       ELSE /\ showPlateInput' = TRUE
            /\ Render([loginForm EXCEPT !.message = MsgPlateMissing], attempts)
    /\ KeypadUnchanged

\* the "Change vehicle" link
ChangeVehicle ==
    /\ ~showPlateInput
    /\ showPlateInput' = TRUE
    /\ Render(clearMessage([loginForm EXCEPT !.enteredCode = <<>>]), attempts)
    /\ KeypadUnchanged

\* a digit button of the keypad
HandleNumberClick ==
    /\ ~showPlateInput
    /\ ~loginForm.isSubmitting
    /\ \E number \in KeypadDigits : Render(handleNumberClick(loginForm, number), attempts)
    /\ UNCHANGED showPlateInput
    /\ KeypadUnchanged

HandleClear ==
    /\ ~showPlateInput
    /\ ~loginForm.isSubmitting
    /\ Render(handleClear(loginForm), attempts)
    /\ UNCHANGED showPlateInput
    /\ KeypadUnchanged

HandleBackspace ==
    /\ ~showPlateInput
    /\ ~loginForm.isSubmitting
    /\ Render(handleBackspace(loginForm), attempts)
    /\ UNCHANGED showPlateInput
    /\ KeypadUnchanged

\* handleSignIn after its awaits: the answer for the plate and the code the
\* call was started with is applied to the form as it is now
HandleSignInReturns ==
    /\ \E i \in 1..Len(attempts) :
           LET r == handleSignIn(attempts[i].plateNumber, attempts[i].enteredCode)
               form == handleSignInForm(loginForm, r)
           IN  Render(form, Remove(attempts, i))
    /\ UNCHANGED showPlateInput
    /\ KeypadUnchanged

\* after a sign-in AppContent renders the spinner and then the fuel form; the
\* login form is mounted again, blank, after the sign-out
Remount ==
    /\ loginForm.message = MsgWelcome
    /\ attempts = <<>>
    /\ loginForm' = FormBlank
    /\ showPlateInput' = TRUE
    /\ UNCHANGED attempts
    /\ KeypadUnchanged

(***************************************************************************)
(* Vehicle CSV parsing on its own                                          *)
(***************************************************************************)
CsvAlphabet == {"a", "A", ",", " "}

CsvStrings == UNION {[1..k -> CsvAlphabet] : k \in 0..MaxCsvLen}

\* "abc-1, ABC-1,, "
ExampleCsv ==
    <<"a", "b", "c", "-", "1", ",", " ", "A", "B", "C", "-", "1", ",", ",", " ">>

ParseVehicles ==
    /\ csvOut = Unparsed
    /\ csvOut' = vehiclesArray(csvIn)
    /\ UNCHANGED <<auth_users, app_users, nextId, last, csvIn, clientVars,
                   restVars>>

(***************************************************************************)
(* Specification                                                           *)
(***************************************************************************)
Init ==
    /\ auth_users = (1 :> [email |-> AdminEmail, password |-> AdminSecret])
                        @@ (2 :> [email |-> GuestEmail, password |-> GuestSecret])
    /\ app_users = << [id |-> 3, email |-> AdminEmail, role |-> "admin",
                         assigned_vehicles |-> <<>>, created_by |-> 0] >>
    /\ nextId = 4
    /\ last = Idle
    /\ csvIn = <<>>
    /\ csvOut = Unparsed
    /\ NoClient

Next ==
    \/ Unauthorized
    \/ CreateUser
    \/ ResetPassword
    \/ DeleteUser
    \/ InvalidAction
    \/ ResponseReturned

Spec == Init /\ [][Next]_vars

\* login attempts against a directory of up to MaxAccounts accounts
LoginEmail(i) == <<"u", <<"1", "2", "3", "4", "5", "6", "7", "8", "9">>[i]>>

VehicleChoices == {<<>>, << <<"A">> >>, << <<"B">> >>}

ValidCodes == {c \in PasscodeInputs : isFourDigits(c)}

InitLogin ==
    /\ \E n \in 0..MaxAccounts :
         \E roles \in [1..n -> Roles], vehicles \in [1..n -> VehicleChoices],
            codes \in [1..n -> ValidCodes] :
             /\ app_users = [i \in 1..n |->
                                [id |-> i, email |-> LoginEmail(i), role |-> roles[i],
                                 assigned_vehicles |-> vehicles[i], created_by |-> 0]]
             /\ auth_users = [i \in 1..n |->
                                 [email |-> LoginEmail(i), password |-> codes[i]]]
             /\ nextId = n + 1
    /\ last = Idle
    /\ csvIn = <<>>
    /\ csvOut = Unparsed
    /\ NoClient

NextLogin ==
    \/ HandleSignIn
    \/ AuthWithPasscode
    \/ ResponseReturned

SpecLogin == InitLogin /\ [][NextLogin]_vars

\* one account of either role, with or without an assignment, its credential,
\* and a credential that has no account row yet
ClientVehicleChoices == {<<>>, << <<"A">> >>}

InitClient ==
    /\ \E role \in Roles, vehicles \in ClientVehicleChoices :
           app_users = << [id |-> 1, email |-> LoginEmail(1), role |-> role,
                           assigned_vehicles |-> vehicles, created_by |-> 0] >>
    /\ auth_users = [i \in 1..2 |->
                        [email |-> LoginEmail(i), password |-> <<"1", "2", "3", "4">>]]
    /\ nextId = 3
    /\ last = Idle
    /\ csvIn = <<>>
    /\ csvOut = Unparsed
    /\ NoClient

NextClient ==
    \/ OnSignedIn
    \/ OnSignedOut
    \/ SubmitFuelForm
    \/ OpenAdminPanel
    \/ OpenUserManagement
    \/ SubmitUserManagement
    \/ ResponseReturned

SpecClient == InitClient /\ [][NextClient]_vars

\* the admin panel holds a fetched list of records
InitSummary ==
    /\ auth_users = <<>>
    /\ app_users = <<>>
    /\ nextId = 1
    /\ last = Idle
    /\ csvIn = <<>>
    /\ csvOut = Unparsed
    /\ loginForm = FormBlank
    /\ session = SignedOut
    /\ fuel_records = <<>>
    /\ \E records \in RecordLists :
           panel = [view |-> "records", records |-> records, management |-> "closed"]
    /\ groupedRecords = <<>>
    /\ fetches = <<>>
    /\ attempts = <<>>
    /\ loading = FALSE
    /\ showPlateInput = TRUE

NextSummary == RenderGroupedRecords

SpecSummary == InitSummary /\ [][NextSummary]_vars

\* the provider mounts: initializeAuth awaits getSession() and the INITIAL_SESSION
\* event is due, both for the session the browser kept (0 for none); the first
\* credential has an account, the second has none
InitAuth ==
    /\ \E role \in Roles, vehicles \in ClientVehicleChoices :
           app_users = << [id |-> 1, email |-> LoginEmail(1), role |-> role,
                           assigned_vehicles |-> vehicles, created_by |-> 0] >>
    /\ auth_users = [i \in 1..2 |->
                        [email |-> LoginEmail(i), password |-> <<"1", "2", "3", "4">>]]
    /\ nextId = 3
    /\ last = Idle
    /\ csvIn = <<>>
    /\ csvOut = Unparsed
    /\ loginForm = FormBlank
    /\ session = SignedOut
    /\ fuel_records = <<>>
    /\ panel = PanelClosed
    /\ groupedRecords = <<>>
    /\ attempts = <<>>
    /\ showPlateInput = TRUE
    /\ loading = TRUE
    /\ \E kept \in {0} \cup DOMAIN auth_users :
           fetches = << AsyncCall("initializeAuth", "getSession", kept),
                        AsyncCall("onAuthStateChange", "event", kept) >>

NextAuth ==
    \/ InitializeAuth
    \/ OnAuthStateChange
    \/ SignIn
    \/ SignOut
    \/ FetchAppUserSelect
    \/ FetchAppUserInsert

SpecAuth == InitAuth /\ [][NextAuth]_vars

\* the login form over a directory with one user, assigned vehicle A, whose
\* passcode is 1111
InitKeypad ==
    /\ app_users = << [id |-> 1, email |-> LoginEmail(1), role |-> "user",
                       assigned_vehicles |-> << <<"A">> >>, created_by |-> 0] >>
    /\ auth_users = (1 :> [email |-> LoginEmail(1), password |-> <<"1", "1", "1", "1">>])
    /\ nextId = 2
    /\ last = Idle
    /\ csvIn = <<>>
    /\ csvOut = Unparsed
    /\ NoClient

NextKeypad ==
    \/ ChangePlateNumber
    \/ Continue
    \/ ChangeVehicle
    \/ HandleNumberClick
    \/ HandleClear
    \/ HandleBackspace
    \/ HandleSignInReturns
    \/ Remount

SpecKeypad == InitKeypad /\ [][NextKeypad]_vars

\* the vehicle CSV of a create-user request, parsed
InitParse ==
    /\ auth_users = <<>>
    /\ app_users = <<>>
    /\ nextId = 1
    /\ last = Idle
    /\ csvIn \in CsvStrings \cup {ExampleCsv}
    /\ csvOut = Unparsed
    /\ NoClient

NextParse == ParseVehicles

SpecParse == InitParse /\ [][NextParse]_vars

(***************************************************************************)
(* Vocabulary of the properties                                            *)
(***************************************************************************)
Handled(action) == last.kind = "admin-users" /\ last.action = action

\* the caller's token resolves to an account row with role admin
\* (evaluated on the stores as they are when the request arrives)
ResolvesToAdmin(header) ==
    /\ header.present
    /\ header.token \in DOMAIN auth_users
    /\ \E i \in 1..Len(app_users) :
           /\ app_users[i].email = auth_users[header.token].email
           /\ app_users[i].role = "admin"

StoresUnchanged == auth_users' = auth_users /\ app_users' = app_users

MutatingCalls ==
    {"auth.admin.createUser", "auth.admin.updateUserById", "auth.admin.deleteUser",
     "app_users.upsert", "app_users.delete"}

\* the store calls of the operation itself, after the two reads of the gate
OwnCalls(calls) == SubSeq(calls, 3, Len(calls))

CallMade(calls, fn, ok) == \E i \in 1..Len(calls) : calls[i].fn = fn /\ calls[i].ok = ok

hasCredential(row) == \E id \in DOMAIN auth_users : auth_users[id].email = row.email

(***************************************************************************)
(* C1: a request to create-user, reset-password or delete-user whose       *)
(* token does not resolve to an account with role admin (no header,        *)
(* invalid token, no account row, role user) is answered with an error     *)
(* and changes neither store, whatever role the client asserts.            *)
(***************************************************************************)
C1_PrivilegedOpsNeedAdmin ==
    [][ (/\ last'.kind = "admin-users"
         /\ last'.action \in LifecycleActions
         /\ ~ResolvesToAdmin(last'.auth))
        => (/\ last'.status \in {401, 403}
            /\ last'.error \in {MsgNoHeader, MsgInvalidToken, MsgAdminRequired}
            /\ \A i \in 1..Len(last'.calls) : last'.calls[i].fn \notin MutatingCalls
            /\ StoresUnchanged) ]_vars

\* a caller whose account has role user asserts role admin and is refused
C1_Witness ==
    /\ last.kind = "admin-users"
    /\ last.action = "create-user"
    /\ last.role = "admin"
    /\ last.status = 403
    /\ last.auth.token \in DOMAIN auth_users
    /\ \E i \in 1..Len(app_users) :
           /\ app_users[i].email = auth_users[last.auth.token].email
           /\ app_users[i].role = "user"

(***************************************************************************)
(* C2: in every reachable state no account row exists whose identity has   *)
(* no credential in the Credential Store.                                  *)
(***************************************************************************)
C2_NoAccountWithoutCredential ==
    \A i \in 1..Len(app_users) : hasCredential(app_users[i])

(***************************************************************************)
(* C3: when create returns its error because the account write failed      *)
(* after the credential was created, the Credential Store holds no         *)
(* credential for the identity just created.                               *)
(***************************************************************************)
C3_NoCredentialAfterFailedCreate ==
    (/\ Handled("create-user")
     /\ CallMade(last.calls, "auth.admin.createUser", TRUE)
     /\ CallMade(last.calls, "app_users.upsert", FALSE))
    => (nextId - 1) \notin DOMAIN auth_users

(***************************************************************************)
(* C4: delete-user calls the credential deletion before the account        *)
(* deletion; if the credential deletion fails it answers with an error     *)
(* and leaves both stores unchanged.                                       *)
(***************************************************************************)
C4_DeleteCredentialFirst ==
    [][ (/\ last'.kind = "admin-users"
         /\ last'.action = "delete-user"
         /\ ResolvesToAdmin(last'.auth))
        => LET own == OwnCalls(last'.calls)
           IN  /\ Len(own) >= 1
               /\ own[1].fn = "auth.admin.deleteUser"
               /\ \A i \in 1..Len(own) : own[i].fn = "app_users.delete" => i = 2
               /\ ~own[1].ok => (/\ Len(own) = 1
                                 /\ last'.status = 400
                                 /\ last'.error # "none"
                                 /\ StoresUnchanged) ]_vars

\* the credential deletion failed for a credential and an account that exist
C4_Witness ==
    /\ Handled("delete-user")
    /\ CallMade(last.calls, "auth.admin.deleteUser", FALSE)
    /\ last.body.userId \in DOMAIN auth_users
    /\ Len(eqId(app_users, last.body.userId)) = 1
    /\ last.status = 400

(***************************************************************************)
(* C5: when delete-user deleted the credential and failed to delete the    *)
(* account, its response differs from every response it gives when the     *)
(* credential deletion itself fails, the account row is still there and    *)
(* the credential is not re-created.                                       *)
(***************************************************************************)
CredentialDeletionFailureResponses ==
    {[status |-> 400, error |-> m] : m \in {MsgUserNotFound, MsgUnavailable}}

C5_PartialDeleteDistinct ==
    (/\ Handled("delete-user")
     /\ CallMade(last.calls, "auth.admin.deleteUser", TRUE)
     /\ CallMade(last.calls, "app_users.delete", FALSE))
    => (/\ [status |-> last.status, error |-> last.error]
               \notin CredentialDeletionFailureResponses
        /\ last.body.userId \notin DOMAIN auth_users)

(***************************************************************************)
(* C6: create-user, called by an administrator with a well-formed          *)
(* passcode for an email whose lowercase form already has an account       *)
(* (also when the email differs from the stored one only in letter case),  *)
(* answers "User with this email already exists" and changes neither       *)
(* store.                                                                  *)
(***************************************************************************)
C6_DuplicateEmailRejected ==
    [][ (/\ last'.kind = "admin-users"
         /\ last'.action = "create-user"
         /\ ResolvesToAdmin(last'.auth)
         /\ isFourDigits(last'.body.password)
         /\ \E i \in 1..Len(app_users) :
                app_users[i].email = toLowerCase(last'.body.email))
        => (/\ last'.status = 400
            /\ last'.error = MsgExists
            /\ \A i \in 1..Len(last'.calls) : last'.calls[i].fn \notin MutatingCalls
            /\ StoresUnchanged) ]_vars

\* the email differs from the stored one in letter case only
C6_Witness ==
    /\ Handled("create-user")
    /\ last.error = MsgExists
    /\ last.body.email # toLowerCase(last.body.email)
    /\ \E i \in 1..Len(app_users) : app_users[i].email = toLowerCase(last.body.email)

(***************************************************************************)
(* C7: create-user with a passcode that is not exactly four digits         *)
(* answers "Password must be exactly 4 digits" before any store call of    *)
(* its own (the gate's two reads are the only calls), so both stores are   *)
(* unchanged.                                                              *)
(***************************************************************************)
C7_MalformedPasscodeRejected ==
    [][ (/\ last'.kind = "admin-users"
         /\ last'.action = "create-user"
         /\ ResolvesToAdmin(last'.auth)
         /\ ~(/\ Len(last'.body.password) = 4
              /\ \A i \in 1..4 : last'.body.password[i] \in Digits))
        => (/\ last'.status = 400
            /\ last'.error = MsgFourDigits
            /\ OwnCalls(last'.calls) = <<>>
            /\ StoresUnchanged) ]_vars

\* the five-digit passcode 12345
C7_Witness ==
    /\ Handled("create-user")
    /\ last.body.password = <<"1", "2", "3", "4", "5">>
    /\ last.status = 400
    /\ last.error = MsgFourDigits

(***************************************************************************)
(* C8: every secret create-user or reset-password writes to the            *)
(* Credential Store is exactly four ASCII digits, and a call with a        *)
(* malformed passcode leaves every stored secret unchanged.                *)
(***************************************************************************)
FourAsciiDigits(secret) ==
    /\ Len(secret) = 4
    /\ \A i \in 1..Len(secret) : secret[i] \in Digits

SeededSecret(id, secret) ==
    \/ id = 1 /\ secret = AdminSecret
    \/ id = 2 /\ secret = GuestSecret

C8_WrittenSecretsFourDigits ==
    [][ /\ \A id \in DOMAIN auth_users' :
               \/ FourAsciiDigits(auth_users'[id].password)
               \/ SeededSecret(id, auth_users'[id].password)
        /\ \A i \in 1..Len(last'.calls) :
               (/\ last'.calls[i].fn \in {"auth.admin.createUser",
                                         "auth.admin.updateUserById"}
                /\ last'.calls[i].ok)
               => FourAsciiDigits(last'.calls[i].arg)
        /\ (/\ last'.kind = "admin-users"
            /\ last'.action \in {"create-user", "reset-password"}
            /\ ~FourAsciiDigits(last'.body.password))
           => auth_users' = auth_users ]_vars

\* a reset has overwritten the secret of a credential created by create-user
C8_Witness ==
    /\ Handled("reset-password")
    /\ last.status = 200
    /\ last.body.userId >= 4
    /\ auth_users[last.body.userId].password = last.body.password
    /\ CallMade(last.calls, "auth.admin.updateUserById", TRUE)

(***************************************************************************)
(* C9: the vehicle collection create-user stores for a CSV is the set of   *)
(* its comma-separated entries, trimmed and uppercased, without the empty  *)
(* ones, and holds no identifier more than once.                           *)
(***************************************************************************)
C9_VehiclesDeduplicated ==
    csvOut # Unparsed
    => (/\ Range(csvOut)
               = {toUpperCase(trim(e)) : e \in Range(split(csvIn))} \ {<<>>}
        /\ \A i, j \in 1..Len(csvOut) : csvOut[i] = csvOut[j] => i = j)

(***************************************************************************)
(* C10: neither login path ever resolves to an account whose role is       *)
(* admin, whatever the directory, the vehicle and the code, also when an   *)
(* admin account lists the vehicle and its credential equals the code.     *)
(***************************************************************************)
C10_ResolveNeverAdmin ==
    last.kind \in {"login-form", "auth-with-passcode"}
    => \A i \in 1..Len(last.matched) :
           ~\E j \in 1..Len(app_users) :
                /\ app_users[j].email = last.matched[i].email
                /\ app_users[j].role = "admin"

\* a login succeeds although an admin account, earlier in the table, lists the
\* vehicle and has the entered code as its credential
C10_Witness ==
    /\ last.kind = "login-form"
    /\ Len(last.matched) = 1
    /\ \E j \in 1..Len(app_users) :
           /\ app_users[j].role = "admin"
           /\ includes(app_users[j].assigned_vehicles,
                       toUpperCase(trim(last.body.plateNumber)))
           /\ signInWithPassword(app_users[j].email, last.body.password)
           /\ \E k \in 1..Len(app_users) :
                  app_users[k].email = last.matched[1].email /\ j < k

(***************************************************************************)
(* Vocabulary of the resolve claims                                        *)
(***************************************************************************)
\* a login attempt was handled whose vehicle is non-blank and whose code is
\* four digits
Resolved ==
    /\ last.kind \in {"login-form", "auth-with-passcode"}
    /\ Len(trim(last.body.plateNumber)) > 0
    /\ isFourDigits(last.body.password)

\* the role=user accounts that list the requested vehicle, in directory order
Candidates ==
    SelectSeq(app_users,
              LAMBDA r : /\ r.role = "user"
                         /\ includes(r.assigned_vehicles,
                                     toUpperCase(trim(last.body.plateNumber))))

\* the verification calls of the attempt, in the order they were made
Verifications == SelectSeq(last.calls, LAMBDA c : c.fn = "auth.signInWithPassword")

(***************************************************************************)
(* C11: when several role=user accounts list the requested vehicle and     *)
(* one of them verifies the code, the attempt verifies the candidates one  *)
(* at a time in directory order, returns the first one that verifies even  *)
(* if earlier ones failed, and makes no verification call after it.        *)
(***************************************************************************)
C11_FirstVerifyingCandidate ==
    LET k == firstSignedIn(Candidates, last.body.password)
    IN  (Resolved /\ Len(Candidates) >= 2 /\ k # 0)
        => (/\ Len(last.matched) = 1
            /\ last.matched[1].email = Candidates[k].email
            /\ Verifications
                   = [i \in 1..k |->
                          Call("auth.signInWithPassword", i = k, Candidates[i].email)])

(***************************************************************************)
(* C12: whenever a login attempt succeeds, the account it returns lists    *)
(* the trimmed, uppercased vehicle in its assignment.                      *)
(***************************************************************************)
C12_ReturnedAccountListsVehicle ==
    (Resolved /\ Len(last.matched) = 1)
    => \E i \in 1..Len(Candidates) : Candidates[i].email = last.matched[1].email

(***************************************************************************)
(* C13: a login attempt for a vehicle that no role=user account lists      *)
(* fails with the vehicle-not-assigned error (or, when the directory has   *)
(* no role=user account at all, the no-accounts error) and makes no call   *)
(* to the Credential Store.                                                *)
(***************************************************************************)
C13_UnassignedVehicleNoCredentialCall ==
    (Resolved /\ Len(Candidates) = 0)
    => (/\ last.error \in {MsgNotAssigned, MsgNoAccounts, MsgNoUsers}
        /\ Len(last.matched) = 0
        /\ \A i \in 1..Len(last.calls) :
               last.calls[i].fn \notin {"auth.signInWithPassword", "auth.signOut"})

(***************************************************************************)
(* C14: when no candidate verifies the code, the login attempt ends with   *)
(* the invalid-passcode error and, once it has finished, the entered code  *)
(* is empty, the entered vehicle is unchanged and the form is no longer    *)
(* submitting.                                                             *)
(***************************************************************************)
C14_FailedLoginClearsCodeOnly ==
    (/\ last.kind = "login-form"
     /\ Resolved
     /\ Len(Candidates) >= 1
     /\ firstSignedIn(Candidates, last.body.password) = 0)
    => (/\ last.error = MsgInvalidPasscode
        /\ loginForm.message = MsgInvalidPasscode
        /\ loginForm.enteredCode = <<>>
        /\ loginForm.plateNumber = last.body.plateNumber
        /\ ~loginForm.isSubmitting)

\* a wrong code for an assigned vehicle, typed with surrounding blanks kept
C14_Witness ==
    /\ last.kind = "login-form"
    /\ last.error = MsgInvalidPasscode
    /\ Len(Candidates) >= 1
    /\ Len(last.body.password) = 4
    /\ loginForm.plateNumber = <<" ", "A">>
    /\ loginForm.enteredCode = <<>>

(***************************************************************************)
(* C15: in the passcode login form, a failed attempt reports the same      *)
(* error whether or not the vehicle is assigned: the attempt made and the  *)
(* same attempt with another vehicle, when both fail, show the same error. *)
(***************************************************************************)
C15_SameErrorWhetherAssigned ==
    (last.kind = "login-form" /\ Resolved /\ Len(last.matched) = 0)
    => \A typed \in PlateInputs :
           LET other == handleSignIn(toUpperCase(typed), last.body.password)
           IN  (Len(trim(typed)) > 0 /\ Len(other.matched) = 0)
               => other.error = last.error

(***************************************************************************)
(* Vocabulary of the authorization claims                                  *)
(***************************************************************************)
\* the fuel form was submitted and the submission was not denied
SubmissionAllowed == last.kind = "fuel-form" /\ last.error # MsgNotAuthorized

InsertIssued ==
    \E i \in 1..Len(last.calls) : last.calls[i].fn = "fuel_records.insert"

\* the account's assignment is empty or holds the uppercased plate submitted
AssignedOrUnrestricted(account) ==
    \/ account.assigned_vehicles = <<>>
    \/ toUpperCase(last.body.plateNumber) \in Range(account.assigned_vehicles)

(***************************************************************************)
(* C16: for an account with role user, the write check lets a submission   *)
(* through for every vehicle when the assignment is empty, and otherwise   *)
(* exactly when the uppercased vehicle is in the assignment.               *)
(***************************************************************************)
C16_UserWriteCheck ==
    (last.kind = "fuel-form" /\ session.appUser.role = "user")
    => (/\ SubmissionAllowed <=> AssignedOrUnrestricted(session.appUser)
        /\ InsertIssued <=> AssignedOrUnrestricted(session.appUser))

\* a lowercase plate whose uppercase form is assigned is let through
C16_Witness ==
    /\ last.kind = "fuel-form"
    /\ session.appUser.role = "user"
    /\ session.appUser.assigned_vehicles = << <<"A">> >>
    /\ last.body.plateNumber = <<"a">>
    /\ InsertIssued

(***************************************************************************)
(* C17: for an account with role admin the write check lets every vehicle  *)
(* through, also when the admin's assignment is non-empty and does not     *)
(* hold the vehicle; the admin panel shows all records and the account     *)
(* management to it.                                                       *)
(***************************************************************************)
C17_AdminUnrestricted ==
    session.appUser.role = "admin"
    => (/\ last.kind = "fuel-form" => SubmissionAllowed
        /\ panel.view # "closed" => panel.view = "records"
        /\ panel.management # "closed" => panel.management = "users")

(***************************************************************************)
(* C18: for an account with role user the admin panel never fetches or     *)
(* shows the all-records view, the account management is never shown and   *)
(* no lifecycle request is sent from its session.                          *)
(***************************************************************************)
C18_UserNeverManagesOrViewsAll ==
    session.appUser.role = "user"
    => (/\ panel.view \in {"closed", "denied"}
        /\ panel.records = <<>>
        /\ panel.management \in {"closed", "denied"}
        /\ last.kind # "user-management")

\* a user-role session opened /admin, with records in the store, and was denied
C18_Witness ==
    /\ session.appUser.role = "user"
    /\ panel.view = "denied"
    /\ Len(fuel_records) >= 1

(***************************************************************************)
(* C19: when the write check denies a submission (the account has a        *)
(* non-empty assignment without the uppercased plate), no insert is issued *)
(* to the Record Store and the error names the uppercased vehicle.         *)
(***************************************************************************)
C19_DenialNamesVehicle ==
    [][ (/\ last'.kind = "fuel-form"
         /\ session.appUser # NoAccount
         /\ ~AssignedOrUnrestricted(session.appUser)')
        => (/\ last'.error = MsgNotAuthorized
            /\ last'.names = toUpperCase(last'.body.plateNumber)
            /\ last'.calls = <<>>
            /\ fuel_records' = fuel_records) ]_vars

\* the plate typed as "b" is refused as vehicle B
C19_Witness ==
    /\ last.kind = "fuel-form"
    /\ last.error = MsgNotAuthorized
    /\ last.body.plateNumber = <<"b">>
    /\ last.names = <<"B">>

(***************************************************************************)
(* C20: every fuel record is inserted for a session that has a resolved    *)
(* account which the write check lets through; no insert is issued while   *)
(* the session's account is unresolved.                                    *)
(***************************************************************************)
C20_InsertOnlyForResolvedAccount ==
    (last.kind = "fuel-form" /\ InsertIssued)
    => (/\ session.appUser # NoAccount
        /\ AssignedOrUnrestricted(session.appUser))

(***************************************************************************)
(* Vocabulary of the summary claims                                        *)
(***************************************************************************)
Rendered == groupedRecords # <<>>

Permuted(list) ==
    {[i \in 1..Len(list) |-> list[f[i]]] :
        f \in {g \in [1..Len(list) -> 1..Len(list)] :
                  \A i, j \in 1..Len(list) : g[i] = g[j] => i = j}}

\* the input records stored under a vehicle identifier
Partition(plate_number) ==
    {r \in Range(panel.records) : r.plate_number = plate_number}

RECURSIVE Liters(_)
Liters(records) ==
    IF records = {} THEN 0
    ELSE LET r == CHOOSE x \in records : TRUE
         IN  r.fuel_liters + Liters(records \ {r})

\* where a record stands in the input list
InputIndex(record) == CHOOSE i \in 1..Len(panel.records) : panel.records[i] = record

\* alphabetical order of the one-letter identifiers, lowercase first
Alphabetical == << <<"a">>, <<"A">>, <<"b">>, <<"B">> >>

AlphabetIndex(plate_number) ==
    CHOOSE i \in 1..Len(Alphabetical) : Alphabetical[i] = plate_number

(***************************************************************************)
(* C21: the summaries do not depend on the order of the input list: every  *)
(* permutation of the input gives the same output, including the order of  *)
(* the records inside each summary.                                        *)
(***************************************************************************)
C21_PermutationInvariant ==
    Rendered
    => \A list \in Permuted(panel.records) :
           groupRecordsByPlate(list) = groupedRecords

(***************************************************************************)
(* C22: in every summary, count is the number of input records of the      *)
(* vehicle and at least 1, total is the sum of their liters and average is *)
(* total / count; the example A:10, A:20, B:5 gives A with count 2, total  *)
(* 30, average 15, first record dated 2024-02-01, and B with count 1,      *)
(* total 5, average 5.                                                     *)
(***************************************************************************)
C22_CountTotalAverage ==
    Rendered
    => (/\ \A k \in 1..Len(groupedRecords) :
               LET g == groupedRecords[k]
                   part == Partition(g.plate_number)
               IN  /\ g.recordCount = Cardinality(part)
                   /\ g.recordCount >= 1
                   /\ g.totalFuel = Liters(part)
                   /\ g.averageFuel.den >= 1
                   /\ g.averageFuel.num * g.recordCount
                          = g.averageFuel.den * g.totalFuel
        /\ Range(panel.records)
               = {FuelRecord(1, <<"A">>, Jan01, 10, <<>>),
                  FuelRecord(2, <<"A">>, Feb01, 20, <<0>>),
                  FuelRecord(3, <<"B">>, Jan15, 5, <<>>)}
           => (/\ Len(groupedRecords) = 2
               /\ groupedRecords[1].plate_number = <<"A">>
               /\ groupedRecords[1].recordCount = 2
               /\ groupedRecords[1].totalFuel = 30
               /\ groupedRecords[1].averageFuel = [num |-> 15, den |-> 1]
               /\ groupedRecords[1].records[1].filling_date = Feb01
               /\ groupedRecords[2].plate_number = <<"B">>
               /\ groupedRecords[2].recordCount = 1
               /\ groupedRecords[2].totalFuel = 5
               /\ groupedRecords[2].averageFuel = [num |-> 5, den |-> 1]))

\* the example, given as B:5, A:10, A:20
C22_Witness ==
    /\ Rendered
    /\ Len(panel.records) = 3
    /\ panel.records[1].id = 3
    /\ panel.records[2].id = 1
    /\ panel.records[3].id = 2
    /\ groupedRecords[1].totalFuel = 30

(***************************************************************************)
(* C23: in every summary the latest and the earliest odometer values are   *)
(* the maximum and the minimum of the partition's non-null readings, a     *)
(* reading of 0 included; with no reading in the partition both are        *)
(* absent, not 0.                                                          *)
(***************************************************************************)
C23_OdometerExtremes ==
    Rendered
    => \A k \in 1..Len(groupedRecords) :
           LET g == groupedRecords[k]
               readings == {r.odometer_reading[1] :
                               r \in {x \in Partition(g.plate_number) :
                                         x.odometer_reading # <<>>}}
           IN  IF readings = {}
               THEN g.latestOdometer = <<>> /\ g.firstOdometer = <<>>
               ELSE /\ Len(g.latestOdometer) = 1
                    /\ Len(g.firstOdometer) = 1
                    /\ g.latestOdometer[1] \in readings
                    /\ g.firstOdometer[1] \in readings
                    /\ \A x \in readings :
                           g.firstOdometer[1] <= x /\ x <= g.latestOdometer[1]

\* one partition with the readings 0 and 120, another without any reading
C23_Witness ==
    /\ Rendered
    /\ \E k \in 1..Len(groupedRecords) :
           /\ groupedRecords[k].firstOdometer = <<0>>
           /\ groupedRecords[k].latestOdometer = <<120>>
    /\ \E k \in 1..Len(groupedRecords) : groupedRecords[k].latestOdometer = <<>>

(***************************************************************************)
(* C27: inside each summary the records are ordered by fill date           *)
(* descending, and records with equal fill dates keep their relative order *)
(* from the input list.                                                    *)
(***************************************************************************)
C27_DateDescendingStable ==
    Rendered
    => \A k \in 1..Len(groupedRecords) :
           LET rs == groupedRecords[k].records
           IN  \A i, j \in 1..Len(rs) :
                   i < j
                   => /\ rs[i].filling_date >= rs[j].filling_date
                      /\ rs[i].filling_date = rs[j].filling_date
                         => InputIndex(rs[i]) < InputIndex(rs[j])

\* two records of A on 2024-02-01, the one with the smaller id given first
C27_Witness ==
    /\ Rendered
    /\ \E k \in 1..Len(groupedRecords) :
           LET rs == groupedRecords[k].records
           IN  /\ Len(rs) >= 2
               /\ rs[1].id = 2
               /\ rs[2].id = 4

CallIndex(calls, fn) == CHOOSE i \in 1..Len(calls) : calls[i].fn = fn

C25_CreateCredentialThenAccount ==
    (Handled("create-user") /\ last.status = 200)
    => LET email == toLowerCase(last.body.email)
           id == nextId - 1
           rows == SelectSeq(app_users, LAMBDA r : r.email = email)
       IN  /\ CallMade(last.calls, "auth.admin.createUser", TRUE)
           /\ CallMade(last.calls, "app_users.upsert", TRUE)
           /\ CallIndex(last.calls, "auth.admin.createUser")
                  < CallIndex(last.calls, "app_users.upsert")
           /\ id \in DOMAIN auth_users
           /\ auth_users[id].email = email
           /\ \A other \in DOMAIN auth_users \ {id} : auth_users[other].email # email
           /\ Len(rows) = 1
           /\ rows[1].id = id

\* an account created for the email typed as "A@x"
C25_Witness ==
    /\ Handled("create-user")
    /\ last.status = 200
    /\ last.body.email = <<"A", "@", "x">>
    /\ \E i \in 1..Len(app_users) :
           /\ app_users[i].email = <<"a", "@", "x">>
           /\ app_users[i].id = nextId - 1
           /\ app_users[i].created_by = last.auth.token

(***************************************************************************)
(* C26: reset-password leaves the Account Directory unchanged in every     *)
(* outcome; when it succeeds only the secret of the named identity         *)
(* changes, and when it fails (malformed passcode, unknown identity) no    *)
(* secret changes.                                                         *)
(***************************************************************************)
C26_ResetTouchesOneSecret ==
    [][ (last'.kind = "admin-users" /\ last'.action = "reset-password")
        => /\ app_users' = app_users
           /\ DOMAIN auth_users' = DOMAIN auth_users
           /\ last'.status = 200
              => /\ last'.body.userId \in DOMAIN auth_users
                 /\ auth_users'[last'.body.userId]
                        = [auth_users[last'.body.userId]
                              EXCEPT !.password = last'.body.password]
                 /\ \A id \in DOMAIN auth_users \ {last'.body.userId} :
                        auth_users'[id] = auth_users[id]
           /\ last'.status # 200 => auth_users' = auth_users ]_vars

\* a reset has given one credential a secret that differs from another's
C26_Witness ==
    /\ Handled("reset-password")
    /\ last.status = 200
    /\ auth_users[last.body.userId].password = last.body.password
    /\ \E id \in DOMAIN auth_users :
           /\ id # last.body.userId
           /\ auth_users[id].password # last.body.password

(***************************************************************************)
(* Vocabulary of the AuthProvider claims                                   *)
(***************************************************************************)
FetchInFlight == \E i \in 1..Len(fetches) : fetches[i].at \in {"select", "insert"}

\* nothing of the provider is pending: no call in flight, no event undelivered
Settled == fetches = <<>>

AccountsFor(email) == SelectSeq(app_users, LAMBDA r : r.email = email)

(***************************************************************************)
(* C24: after the sign-in of an identity that had no account, once every   *)
(* fetchAppUser call started for it has completed, the directory holds     *)
(* exactly one account for its email, with role user and no assigned       *)
(* vehicle, and appUser is that account, not null.                         *)
(***************************************************************************)
C24_FirstSignInProvisionsOneAccount ==
    (Settled /\ session.user = 2)
    => LET rows == AccountsFor(auth_users[2].email)
       IN  /\ Len(rows) = 1
           /\ rows[1].role = "user"
           /\ rows[1].assigned_vehicles = <<>>
           /\ session.appUser = rows[1]

(***************************************************************************)
(* C29: whenever the session has no user and no fetchAppUser call is in    *)
(* flight, appUser is null: a fetch started before a sign-out leaves no    *)
(* appUser behind once the sign-out has been handled.                      *)
(***************************************************************************)
C29_NoAppUserWithoutUser ==
    (session.user = 0 /\ ~FetchInFlight) => session.appUser = NoAccount

(***************************************************************************)
(* C30: in the passcode login form a sign-in attempt starts only when the  *)
(* code has exactly 4 characters and the plate is not blank; the code      *)
(* never exceeds 4 characters; no digit is appended while an attempt is    *)
(* submitting; at most one sign-in attempt is in flight.                   *)
(***************************************************************************)
C30_OneAttemptFourDigits ==
    [][ /\ Len(loginForm'.enteredCode) <= 4
        /\ Len(attempts') <= 1
        /\ Len(attempts') > Len(attempts)
           => /\ attempts = <<>>
              /\ Len(loginForm'.enteredCode) = 4
              /\ Len(trim(loginForm'.plateNumber)) > 0
              /\ attempts'[1].enteredCode = loginForm'.enteredCode
              /\ attempts'[1].plateNumber = loginForm'.plateNumber
        /\ loginForm.isSubmitting
           => Len(loginForm'.enteredCode) <= Len(loginForm.enteredCode)
        /\ attempts' # <<>> => loginForm'.isSubmitting ]_vars

\* while an attempt for one plate is in flight, the plate field is shown again
\* and holds another plate
C30_Witness ==
    /\ Len(attempts) = 1
    /\ loginForm.isSubmitting
    /\ showPlateInput
    /\ Len(trim(loginForm.plateNumber)) > 0
    /\ loginForm.plateNumber # attempts[1].plateNumber

====
